---- MODULE Spec2Model ----
(***************************************************************************)
(* A state-machine model of src/app.py: the storefront and admin panel of  *)
(* a 3D-printing shop (Flask handlers over two SQLite tables, gated by a   *)
(* session flag).  Text is a sequence of one-character strings, so that    *)
(* trimming, parsing and comparison are computed, not assumed.             *)
(***************************************************************************)
EXTENDS Integers, Sequences, FiniteSets, TLC

VARIABLES
    env,        \* os.environ after load_env_file: the configuration values
    session,    \* per client: the keys of its Flask session that hold True
    products,   \* table products: id -> row
    prodSeq,    \* sqlite_sequence.seq of table products (AUTOINCREMENT)
    messages,   \* table messages: id -> row
    msgSeq,     \* sqlite_sequence.seq of table messages (AUTOINCREMENT)
    last,       \* the request served last: route, client, input, response
    loggedOut,  \* history: clients that logged out of an admin session and have
                \* not logged in since
    goneProd,   \* history: product ids a DELETE statement has removed
    goneMsg,    \* history: message ids a DELETE statement has removed
    inflight    \* per worker thread: the request it is serving and where it is

vars == <<env, session, products, prodSeq, messages, msgSeq, last,
          loggedOut, goneProd, goneMsg, inflight>>

----------------------------------------------------------------------------
(* Bounds of the model *)

\* the largest id the products table hands out
MaxProdSeq == 6
\* the largest id the messages table hands out
MaxMsgSeq == 2

\* the clients (browser sessions) of the model
Clients == {"c1", "c2"}
\* the values datetime.utcnow() takes
Times == {1, 2}
\* the threads of the server that serve requests at the same time
Workers == {"w1", "w2"}

----------------------------------------------------------------------------
(* Text *)

Whitespace == {" ", "\t", "\n"}
DigitChars == {"0", "1", "2", "3", "4", "5", "6", "7", "8", "9"}
DigitVal == [c \in DigitChars |->
               CASE c = "0" -> 0 [] c = "1" -> 1 [] c = "2" -> 2 [] c = "3" -> 3
                 [] c = "4" -> 4 [] c = "5" -> 5 [] c = "6" -> 6 [] c = "7" -> 7
                 [] c = "8" -> 8 [] c = "9" -> 9]

RECURSIVE LStrip(_)
LStrip(s) ==
    IF s # <<>> /\ Head(s) \in Whitespace THEN LStrip(Tail(s)) ELSE s

RECURSIVE RStrip(_)
RStrip(s) ==
    IF s # <<>> /\ s[Len(s)] \in Whitespace
    THEN RStrip(SubSeq(s, 1, Len(s) - 1))
    ELSE s

\* str.strip()
Strip(s) == RStrip(LStrip(s))

\* request.form.get(k) or "": a missing field reads as the empty string
FormGetOrEmpty(form, k) == IF k \in DOMAIN form THEN form[k] ELSE <<>>

\* str(request.form.get(k)): a missing field is None, and str(None) is "None"
FormGetStr(form, k) ==
    IF k \in DOMAIN form THEN form[k] ELSE <<"N", "o", "n", "e">>

\* str(i) of an integer that is not negative
DigitOf(d) == CHOOSE c \in DigitChars : DigitVal[c] = d

RECURSIVE IntText(_)
IntText(i) ==
    IF i < 10 THEN <<DigitOf(i)>> ELSE IntText(i \div 10) \o <<DigitOf(i % 10)>>

\* the ASCII capitals and their small letters
AsciiUpper == <<"A", "B", "C", "D", "E", "F", "G", "H", "I", "J", "K", "L", "M", "N",
      "O", "P", "Q", "R", "S", "T", "U", "V", "W", "X", "Y", "Z">>
AsciiLower == <<"a", "b", "c", "d", "e", "f", "g", "h", "i", "j", "k", "l", "m", "n",
      "o", "p", "q", "r", "s", "t", "u", "v", "w", "x", "y", "z">>

\* SQLite's LOWER() and LIKE fold the 26 ASCII letters and nothing else
SqlLowerChar(c) ==
    IF \E i \in 1..26 : AsciiUpper[i] = c
    THEN AsciiLower[CHOOSE i \in 1..26 : AsciiUpper[i] = c]
    ELSE c

SqlLower(s) == [i \in 1..Len(s) |-> SqlLowerChar(s[i])]

\* str.lower() folds every cased letter of Unicode; outside ASCII the texts
\* of the model hold the capitals Ü, Ö and Ç
PyLowerChar(c) ==
    CASE c = "Ü" -> "ü" [] c = "Ö" -> "ö" [] c = "Ç" -> "ç"
      [] OTHER -> SqlLowerChar(c)

PyLower(s) == [i \in 1..Len(s) |-> PyLowerChar(s[i])]

StartsWith(s, prefix) ==
    Len(prefix) <= Len(s) /\ SubSeq(s, 1, Len(prefix)) = prefix

\* sub occurs in s
Contains(s, sub) ==
    \E i \in 0..(Len(s) - Len(sub)) : SubSeq(s, i + 1, i + Len(sub)) = sub

\* txt LIKE pat, without ESCAPE: % is any run of characters, _ is any one
\* character, and every other character matches itself up to ASCII case
RECURSIVE LikeAt(_, _, _, _)
LikeAt(pat, i, txt, j) ==
    IF i > Len(pat) THEN j > Len(txt)
    ELSE IF pat[i] = "%"
    THEN \/ i = Len(pat)
         \/ LikeAt(pat, i + 1, txt, j)
         \/ (j <= Len(txt) /\ LikeAt(pat, i, txt, j + 1))
    ELSE /\ j <= Len(txt)
         /\ (pat[i] = "_" \/ SqlLowerChar(pat[i]) = SqlLowerChar(txt[j]))
         /\ LikeAt(pat, i + 1, txt, j + 1)

Like(txt, pat) == LikeAt(pat, 1, txt, 1)

\* urllib.parse.quote(text): the characters it leaves as they are
QuoteSafe ==
    {AsciiUpper[i] : i \in 1..26} \cup {AsciiLower[i] : i \in 1..26}
        \cup DigitChars \cup {"_", ".", "-", "~", "/"}

\* the other characters of the model's texts
QuoteEscaped ==
    {" ", "\n", "\t", ",", ":", "#", "(", ")", "'", "%", "@", "+", "?", "=",
     "&", "Ü", "ü", "U+0131", "U+015F"}

\* their UTF-8 bytes, each byte as its two hexadecimal digits
Utf8 ==
    [c \in QuoteEscaped |->
        CASE c = " "  -> <<<<"2", "0">>>> [] c = "\n" -> <<<<"0", "A">>>>
          [] c = "\t" -> <<<<"0", "9">>>> [] c = ","  -> <<<<"2", "C">>>>
          [] c = ":"  -> <<<<"3", "A">>>> [] c = "#"  -> <<<<"2", "3">>>>
          [] c = "("  -> <<<<"2", "8">>>> [] c = ")"  -> <<<<"2", "9">>>>
          [] c = "'"  -> <<<<"2", "7">>>> [] c = "%"  -> <<<<"2", "5">>>>
          [] c = "@"  -> <<<<"4", "0">>>> [] c = "+"  -> <<<<"2", "B">>>>
          [] c = "?"  -> <<<<"3", "F">>>> [] c = "="  -> <<<<"3", "D">>>>
          [] c = "&"  -> <<<<"2", "6">>>>
          [] c = "Ü"  -> <<<<"C", "3">>, <<"9", "C">>>>
          [] c = "ü"  -> <<<<"C", "3">>, <<"B", "C">>>>
          [] c = "U+0131" -> <<<<"C", "4">>, <<"B", "1">>>>
          [] c = "U+015F" -> <<<<"C", "5">>, <<"9", "F">>>>]

QuoteChar(c) ==
    IF c \in QuoteSafe THEN <<c>>
    ELSE IF Len(Utf8[c]) = 1 THEN <<"%">> \o Utf8[c][1]
    ELSE <<"%">> \o Utf8[c][1] \o <<"%">> \o Utf8[c][2]

\* the encodings of s[lo..hi], one after the other
RECURSIVE QuoteRange(_, _, _)
QuoteRange(s, lo, hi) ==
    IF lo > hi THEN <<>>
    ELSE IF lo = hi THEN QuoteChar(s[lo])
    ELSE LET mid == (lo + hi) \div 2
         IN  QuoteRange(s, lo, mid) \o QuoteRange(s, mid + 1, hi)

\* urllib.parse.quote(s)
Quote(s) == QuoteRange(s, 1, Len(s))

\* percent-decoding, as urllib.parse.unquote does it on the escapes of the
\* model's characters: %XX is a byte, a byte from C2 to DF opens a character
\* of two bytes, and a % that opens no escape stays as it is
IsUtf8(bytes) == \E c \in QuoteEscaped : Utf8[c] = bytes
Utf8Char(bytes) == CHOOSE c \in QuoteEscaped : Utf8[c] = bytes

ByteAt(s, i) == <<s[i + 1], s[i + 2]>>

HexDigits == DigitChars \cup {"A", "B", "C", "D", "E", "F"}

\* a byte that opens a character of two bytes and is not followed by its
\* second byte: the decoder puts U+FFFD in its place
LoneLeadByte(s, i) ==
    /\ s[i] = "%" /\ i + 2 <= Len(s)
    /\ s[i + 1] \in {"C", "D"} /\ s[i + 2] \in HexDigits

\* the number of characters of s that the token at position i takes
TokenLen(s, i) ==
    IF s[i] = "%" /\ i + 5 <= Len(s) /\ s[i + 3] = "%"
           /\ IsUtf8(<<ByteAt(s, i), ByteAt(s, i + 3)>>)
    THEN 6
    ELSE IF s[i] = "%" /\ i + 2 <= Len(s) /\ IsUtf8(<<ByteAt(s, i)>>)
    THEN 3
    ELSE IF LoneLeadByte(s, i) THEN 3
    ELSE 1

\* position i lies inside an escape that starts before it
RECURSIVE InsideEscape(_, _)
InsideEscape(s, i) ==
    \E d \in 1..5 :
        /\ i - d >= 1
        /\ s[i - d] = "%"
        /\ TokenLen(s, i - d) > d
        /\ ~InsideEscape(s, i - d)

TokenChar(s, i) ==
    IF TokenLen(s, i) = 6 THEN Utf8Char(<<ByteAt(s, i), ByteAt(s, i + 3)>>)
    ELSE IF TokenLen(s, i) = 3
    THEN IF IsUtf8(<<ByteAt(s, i)>>) THEN Utf8Char(<<ByteAt(s, i)>>)
         ELSE "U+FFFD"
    ELSE s[i]

\* the characters of the tokens that start in s[lo..hi]
RECURSIVE UnquoteRange(_, _, _)
UnquoteRange(s, lo, hi) ==
    IF lo > hi THEN <<>>
    ELSE IF lo = hi
    THEN IF InsideEscape(s, lo) THEN <<>> ELSE <<TokenChar(s, lo)>>
    ELSE LET mid == (lo + hi) \div 2
         IN  UnquoteRange(s, lo, mid) \o UnquoteRange(s, mid + 1, hi)

Unquote(s) == UnquoteRange(s, 1, Len(s))

----------------------------------------------------------------------------
(* Numbers.  Python's int is unbounded and SQLite's INTEGER has 64 bits;   *)
(* TLC's integers have 32.  A literal of at most 9 digits has its value; a *)
(* longer one evaluates to PyHuge, which stands for a value above 2^63-1   *)
(* (the inputs of the model have at most 9 digits or at least 20).         *)

PyHuge == 10^9

\* int(): an optional sign, then digits, single underscores between digits
IsIntLiteral(s) ==
    LET body == IF s # <<>> /\ Head(s) \in {"+", "-"} THEN Tail(s) ELSE s
    IN  /\ body # <<>>
        /\ \A i \in 1..Len(body) : body[i] \in DigitChars \cup {"_"}
        /\ body[1] # "_"
        /\ body[Len(body)] # "_"
        /\ \A i \in 1..(Len(body) - 1) : ~(body[i] = "_" /\ body[i + 1] = "_")

RECURSIVE DropZeros(_)
DropZeros(ds) == IF ds # <<>> /\ Head(ds) = "0" THEN DropZeros(Tail(ds)) ELSE ds

RECURSIVE DigitsValue(_, _)
DigitsValue(ds, acc) ==
    IF ds = <<>> THEN acc ELSE DigitsValue(Tail(ds), 10 * acc + DigitVal[Head(ds)])

IntValue(s) ==
    LET neg    == Head(s) = "-"
        body   == IF Head(s) \in {"+", "-"} THEN Tail(s) ELSE s
        digits == DropZeros(SelectSeq(body, LAMBDA c : c # "_"))
        mag    == IF Len(digits) > 9 THEN PyHuge ELSE DigitsValue(digits, 0)
    IN  IF neg THEN 0 - mag ELSE mag

PyMax(a, b) == IF a >= b THEN a ELSE b

\* safe_int(value, default, minv); maxv is None at every call
safe_int_no_clamp(value, default, minv) ==
    IF IsIntLiteral(Strip(value)) THEN IntValue(Strip(value)) ELSE default

safe_int(value, default, minv) ==
    LET v == IF IsIntLiteral(Strip(value)) THEN IntValue(Strip(value)) ELSE default
    IN  PyMax(minv, v)

\* sqlite3 binds a Python int only when it fits 64 bits; otherwise
\* execute() raises OverflowError
SqliteInt(v) == v < PyHuge /\ v > 0 - PyHuge

----------------------------------------------------------------------------
(* Configuration *)

ADMIN_USER == <<"a", "d", "m", "i", "n">>

\* os.environ.get(k, "")
EnvGet(k) == IF k \in DOMAIN env THEN env[k] ELSE <<>>

get_admin_pass == EnvGet("ADMIN_PASS")

get_whatsapp_number == EnvGet("WHATSAPP_NUMBER")

\* the configurations of the model: no .env file, and one that sets both values
NoEnv == <<>>
SetEnv == [ADMIN_PASS |-> <<"s", "3">>, WHATSAPP_NUMBER |-> <<"9", "0", "5">>]
Envs == {NoEnv, SetEnv}

----------------------------------------------------------------------------
(* Responses *)

None == [kind |-> "None", to |-> ""]
Redirect(to) == [kind |-> "redirect", to |-> to]
Page(title) == [kind |-> "page", to |-> title]
\* an exception no handler catches: Flask answers 500
ServerError(exc) == [kind |-> "error", to |-> exc]

----------------------------------------------------------------------------
(* Storage: a table is its rows (id -> row) and its sqlite_sequence entry *)

Ids(rows) == DOMAIN rows

MaxId(rows) ==
    IF Ids(rows) = {} THEN 0
    ELSE CHOOSE i \in Ids(rows) : \A j \in Ids(rows) : j <= i

\* INTEGER PRIMARY KEY without AUTOINCREMENT: one more than the largest rowid
\* now in the table
RowidWithoutAutoincrement(rows, seq) == MaxId(rows) + 1

\* INTEGER PRIMARY KEY AUTOINCREMENT: one more than the largest rowid the
\* table has ever held, which sqlite_sequence records
AutoIncrementId(rows, seq) == PyMax(seq, MaxId(rows)) + 1

Table(rows, seq) == [rows |-> rows, seq |-> seq]

Insert(t, row) ==
    LET id == AutoIncrementId(t.rows, t.seq)
    IN  Table(t.rows @@ (id :> row), id)

\* DELETE FROM t WHERE id=?
DeleteWhereId(rows, id) == [i \in Ids(rows) \ {id} |-> rows[i]]

SeedName1 ==
    <<"P", "S", "5", " ", "D", "u", "a", "l", "S", "e", "n", "s", "e", " ",
      "S", "t", "a", "n", "d", " ", "(", "T", "e", "r", "s", " ", "S", "l",
      "o", "t", "l", "u", ")">>
SeedName2 ==
    <<"K", "a", "b", "l", "o", " ", "D", "ü", "z", "e", "n", "l", "e", "y",
      "i", "c", "i", " ", "K", "l", "i", "p", "s", " ", "S", "e", "t", "i",
      " ", "(", "1", "0", "'", "l", "u", ")">>
SeedName3 ==
    <<"M", "a", "s", "a", " ", "Ü", "s", "t", "ü", " ", "T", "e", "l", "e",
      "f", "o", "n", " ", "S", "t", "a", "n", "d", "U+0131", " ", "(", "A",
      "y", "a", "r", "l", "U+0131", ")">>

ProductRow(name, category, material, price, stock, lead, photo_url, stl_url, now) ==
    [name |-> name, category |-> category, material |-> material,
     price |-> price, stock |-> stock, lead_time_days |-> lead,
     photo_url |-> photo_url, stl_url |-> stl_url, created_at |-> now]

SeedRows(now) ==
    << ProductRow(SeedName1, <<"A", "k", "s", "e", "s", "u", "a", "r">>,
                  <<"P", "L", "A">>, 249, 15, 2, <<>>, <<>>, now),
       ProductRow(SeedName2,
                  <<"O", "r", "g", "a", "n", "i", "z", "a", "s", "y", "o", "n">>,
                  <<"P", "E", "T", "G">>, 129, 40, 1, <<>>, <<>>, now),
       ProductRow(SeedName3, <<"S", "t", "a", "n", "d">>,
                  <<"P", "L", "A">>, 159, 25, 1, <<>>, <<>>, now) >>

\* executemany: the three INSERTs, in the order of the list
SeedInserts(t, now) ==
    Insert(Insert(Insert(t, SeedRows(now)[1]), SeedRows(now)[2]),
           SeedRows(now)[3])

\* seed_products_if_empty: SELECT COUNT(*), and three INSERTs when it is 0
seed_products_if_empty(t, now) ==
    IF Cardinality(Ids(t.rows)) = 0 THEN SeedInserts(t, now) ELSE t

\* _startup, before every request: init_db creates the tables when they are
\* missing (an empty table is a missing one here), then the seeding
Startup(now) == seed_products_if_empty(Table(products, prodSeq), now)

\* the ids left let the seeding of this request run
CanStart == Ids(products) = {} => prodSeq + 3 <= MaxProdSeq

fetch_product(rows, pid) == IF pid \in Ids(rows) THEN rows[pid] ELSE None

\* ORDER BY id DESC
RECURSIVE OrderByIdDesc(_)
OrderByIdDesc(S) ==
    IF S = {} THEN <<>>
    ELSE LET m == CHOOSE i \in S : \A j \in S : j <= i
         IN  <<m>> \o OrderByIdDesc(S \ {m})

\* the ids of the rows that fetch_products returns, in their order
fetch_products(q, cat, mat, rows) ==
    LET q1   == PyLower(Strip(q))
        cat1 == Strip(cat)
        mat1 == Strip(mat)
        hit(i) ==
            /\ q1 # <<>> =>
                   Like(SqlLower(rows[i].name), <<"%">> \o q1 \o <<"%">>)
            /\ cat1 # <<>> => rows[i].category = cat1
            /\ mat1 # <<>> => rows[i].material = mat1
    IN  OrderByIdDesc({i \in Ids(rows) : hit(i)})

MessageRow(name, email, message, is_read, now) ==
    [name |-> name, email |-> email, message |-> message,
     is_read |-> is_read, created_at |-> now]

\* SELECT COUNT(*) FROM messages WHERE is_read=0
count_unread_messages(rows) ==
    Cardinality({i \in Ids(rows) : rows[i].is_read = 0})

----------------------------------------------------------------------------
(* The session gate *)

\* session.get("is_admin")
IsAdmin(sess) == "is_admin" \in sess

require_admin_never(sess) == None

require_admin(sess) ==
    IF ~IsAdmin(sess) THEN Redirect("/login") ELSE None

----------------------------------------------------------------------------
(* The handlers, as functions of the session, the input and the tables the *)
(* request finds after _startup.  Each returns its response and what it    *)
(* leaves in the session and the tables.                                   *)

\* `name and category and material`, `name and email and msg`
AnyFilled(a, b, c) == a # <<>> \/ b # <<>> \/ c # <<>>

AllFilled(a, b, c) == a # <<>> /\ b # <<>> /\ c # <<>>

contact_send(form, now, t) ==
    LET name  == Strip(FormGetOrEmpty(form, "name"))
        email == Strip(FormGetOrEmpty(form, "email"))
        msg   == Strip(FormGetOrEmpty(form, "msg"))
    IN  IF ~AllFilled(name, email, msg)
        THEN [resp |-> Page("Hata"), t |-> t]
        ELSE [resp |-> Page("Gonderildi"),
              t |-> Insert(t, MessageRow(name, email, msg, 0, now))]

login_post_unstripped(sess, form) ==
    LET u == FormGetOrEmpty(form, "username")
        p == FormGetOrEmpty(form, "password")
    IN  IF u = ADMIN_USER /\ p = get_admin_pass
        THEN [resp |-> Redirect("/admin"), sess |-> sess \cup {"is_admin"}]
        ELSE [resp |-> Page("Hata"), sess |-> sess]

login_post(sess, form) ==
    LET u == Strip(FormGetOrEmpty(form, "username"))
        p == FormGetOrEmpty(form, "password")
    IN  IF u = ADMIN_USER /\ p = get_admin_pass
        THEN [resp |-> Redirect("/admin"), sess |-> sess \cup {"is_admin"}]
        ELSE [resp |-> Page("Hata"), sess |-> sess]

logout_keeps_flag(sess) == [resp |-> Redirect("/"), sess |-> sess]

\* session.clear()
logout(sess) == [resp |-> Redirect("/"), sess |-> {}]

\* a page that shows the unread count carries it
CountPage(title, n) == [kind |-> "page", to |-> title, unread |-> n]

home(sess, msgs) ==
    IF IsAdmin(sess)
    THEN CountPage("Ana Sayfa", count_unread_messages(msgs))
    ELSE Page("Ana Sayfa")

\* the order text of product id with row p, before it is encoded
OrderText(id, p) ==
    <<"M", "e", "r", "h", "a", "b", "a", ",", " ", "s", "i", "p", "a", "r",
      "i", "U+015F", " ", "v", "e", "r", "m", "e", "k", " ", "i", "s", "t",
      "i", "y", "o", "r", "u", "m", ".", "\n", "\n">>
        \o <<"Ü", "r", "ü", "n", ":", " ">> \o p.name \o <<"\n">>
        \o <<"K", "a", "t", "e", "g", "o", "r", "i", ":", " ">> \o p.category \o <<"\n">>
        \o <<"M", "a", "l", "z", "e", "m", "e", ":", " ">> \o p.material \o <<"\n">>
        \o <<"F", "i", "y", "a", "t", ":", " ">> \o IntText(p.price) \o <<" ", "T", "L", "\n">>
        \o <<"S", "t", "o", "k", ":", " ">> \o IntText(p.stock) \o <<"\n">>
        \o <<"Ü", "r", "e", "t", "i", "m", " ", "s", "ü", "r", "e", "s", "i", ":",
      " ">> \o IntText(p.lead_time_days) \o <<" ", "g", "ü", "n", "\n">>
        \o <<"Ü", "r", "ü", "n", " ", "I", "D", ":", " ", "#">> \o IntText(id) \o <<"\n", "\n">>
        \o <<"A", "d", "e", "t", ":", " ", "1", "\n">>
        \o <<"R", "e", "n", "k", "/", "N", "o", "t", ":", " ">>

whatsapp_buy_link_unencoded(id, p) ==
    LET num == Strip(get_whatsapp_number)
    IN  IF num = <<>> THEN <<>>
        ELSE <<"h", "t", "t", "p", "s", ":", "/", "/", "w", "a", ".", "m", "e", "/">> \o num \o <<"?", "t", "e", "x", "t", "=">> \o OrderText(id, p)

whatsapp_buy_link(id, p) ==
    LET num == Strip(get_whatsapp_number)
    IN  IF num = <<>> THEN <<>>
        ELSE <<"h", "t", "t", "p", "s", ":", "/", "/", "w", "a", ".", "m", "e", "/">> \o num \o <<"?", "t", "e", "x", "t", "=">> \o Quote(OrderText(id, p))

\* request.args.get(k, "")
ArgGet(args, k) == IF k \in DOMAIN args THEN args[k] ELSE <<>>

\* the catalog page carries the ids it lists, in their order, and for each
\* the href of its purchase button (empty: no button is rendered)
ListPage(title, ids, buy) ==
    [kind |-> "page", to |-> title, ids |-> ids, buy |-> buy]

\* the handler products(); the table has the name
products_get(args, rows) ==
    LET ids == fetch_products(ArgGet(args, "q"), ArgGet(args, "cat"),
                              ArgGet(args, "mat"), rows)
    IN  ListPage("Urunler", ids,
                 [k \in 1..Len(ids) |-> whatsapp_buy_link(ids[k], rows[ids[k]])])

admin(sess, msgs) ==
    LET r == require_admin(sess)
    IN  IF r # None THEN r ELSE CountPage("Panel", count_unread_messages(msgs))

admin_products(sess) ==
    LET r == require_admin(sess)
    IN  IF r # None THEN r ELSE Page("Urun Yonetimi")

admin_add(sess, form, now, t) ==
    LET r        == require_admin(sess)
        name     == Strip(FormGetOrEmpty(form, "name"))
        category == Strip(FormGetOrEmpty(form, "category"))
        material == Strip(FormGetOrEmpty(form, "material"))
        price    == safe_int(FormGetStr(form, "price"), 0, 0)
        stock    == safe_int(FormGetStr(form, "stock"), 0, 0)
        lead     == safe_int(FormGetStr(form, "lead_time_days"), 1, 0)
        photo    == Strip(FormGetOrEmpty(form, "photo_url"))
        stl      == Strip(FormGetOrEmpty(form, "stl_url"))
    IN  IF r # None THEN [resp |-> r, t |-> t]
        ELSE IF ~AllFilled(name, category, material)
        THEN [resp |-> Redirect("/admin/products"), t |-> t]
        ELSE IF ~(SqliteInt(price) /\ SqliteInt(stock) /\ SqliteInt(lead))
        THEN [resp |-> ServerError("OverflowError"), t |-> t]
        ELSE [resp |-> Redirect("/admin/products"),
              t |-> Insert(t, ProductRow(name, category, material, price,
                                         stock, lead, photo, stl, now))]

admin_delete(sess, form, t) ==
    LET r   == require_admin(sess)
        pid == safe_int(FormGetStr(form, "id"), 0, 0)
    IN  IF r # None THEN [resp |-> r, t |-> t]
        ELSE IF ~SqliteInt(pid)
        THEN [resp |-> ServerError("OverflowError"), t |-> t]
        ELSE [resp |-> Redirect("/admin/products"),
              t |-> Table(DeleteWhereId(t.rows, pid), t.seq)]

\* GET /admin/edit/<int:pid>: pid is the int the URL converter made
admin_edit(sess, pid, rows) ==
    LET r == require_admin(sess)
    IN  IF r # None THEN r
        ELSE IF ~SqliteInt(pid) THEN ServerError("OverflowError")
        ELSE IF fetch_product(rows, pid) = None THEN Page("Urun bulunamadi")
        ELSE Page("Urun Duzenle")

\* INSERT OR REPLACE in the place of the UPDATE
UpsertWhereId(rows, pid, new) ==
    [i \in Ids(rows) \cup {pid} |-> IF i = pid THEN new ELSE rows[i]]

\* UPDATE products SET name=?, ..., stl_url=? WHERE id=?
UpdateWhereId(rows, pid, new) ==
    [i \in Ids(rows) |->
        IF i = pid THEN [new EXCEPT !.created_at = rows[i].created_at]
        ELSE rows[i]]

admin_edit_post(sess, pid, form, now, t) ==
    LET r        == require_admin(sess)
        name     == Strip(FormGetOrEmpty(form, "name"))
        category == Strip(FormGetOrEmpty(form, "category"))
        material == Strip(FormGetOrEmpty(form, "material"))
        price    == safe_int(FormGetStr(form, "price"), 0, 0)
        stock    == safe_int(FormGetStr(form, "stock"), 0, 0)
        lead     == safe_int(FormGetStr(form, "lead_time_days"), 1, 0)
        photo    == Strip(FormGetOrEmpty(form, "photo_url"))
        stl      == Strip(FormGetOrEmpty(form, "stl_url"))
    IN  IF r # None THEN [resp |-> r, t |-> t]
        ELSE IF ~SqliteInt(pid)
        THEN [resp |-> ServerError("OverflowError"), t |-> t]
        ELSE IF fetch_product(t.rows, pid) = None
        THEN [resp |-> Redirect("/admin/products"), t |-> t]
        ELSE IF ~AllFilled(name, category, material)
        THEN [resp |-> Redirect("/admin/edit"), t |-> t]
        ELSE IF ~(SqliteInt(price) /\ SqliteInt(stock) /\ SqliteInt(lead))
        THEN [resp |-> ServerError("OverflowError"), t |-> t]
        ELSE [resp |-> Redirect("/admin/products"),
              t |-> Table(UpdateWhereId(t.rows, pid,
                              ProductRow(name, category, material, price,
                                         stock, lead, photo, stl, now)),
                          t.seq)]

admin_messages(sess, msgs) ==
    LET r == require_admin(sess)
    IN  IF r # None THEN r
        ELSE CountPage("Mesajlar", count_unread_messages(msgs))

\* UPDATE messages SET is_read=1 WHERE id=?
SetReadOnlyWhereId(rows, mid) ==
    [i \in Ids(rows) |->
        [rows[i] EXCEPT !.is_read = IF i = mid THEN 1 ELSE 0]]

ToggleReadWhereId(rows, mid) ==
    [i \in Ids(rows) |->
        IF i = mid THEN [rows[i] EXCEPT !.is_read = 1 - rows[i].is_read]
        ELSE rows[i]]

SetReadWhereId(rows, mid) ==
    [i \in Ids(rows) |->
        IF i = mid THEN [rows[i] EXCEPT !.is_read = 1] ELSE rows[i]]

admin_message_read(sess, form, t) ==
    LET r   == require_admin(sess)
        mid == safe_int(FormGetStr(form, "id"), 0, 0)
    IN  IF r # None THEN [resp |-> r, t |-> t]
        ELSE IF ~SqliteInt(mid)
        THEN [resp |-> ServerError("OverflowError"), t |-> t]
        ELSE [resp |-> Redirect("/admin/messages"),
              t |-> Table(SetReadWhereId(t.rows, mid), t.seq)]

admin_message_delete(sess, form, t) ==
    LET r   == require_admin(sess)
        mid == safe_int(FormGetStr(form, "id"), 0, 0)
    IN  IF r # None THEN [resp |-> r, t |-> t]
        ELSE IF ~SqliteInt(mid)
        THEN [resp |-> ServerError("OverflowError"), t |-> t]
        ELSE [resp |-> Redirect("/admin/messages"),
              t |-> Table(DeleteWhereId(t.rows, mid), t.seq)]

----------------------------------------------------------------------------
(* The requests: _startup, then the handler, as one step each *)

\* a request served from its first statement to its last with no statement
\* of another request in between
Serve(route, c, in, resp) ==
    /\ last' = [route |-> route, client |-> c, in |-> in, resp |-> resp]
    /\ UNCHANGED inflight

\* a request that reads only: _startup may still seed
ReadOnly(now) ==
    /\ products' = Startup(now).rows
    /\ prodSeq' = Startup(now).seq
    /\ UNCHANGED <<env, session, messages, msgSeq, loggedOut, goneProd, goneMsg>>

Home(c, now) ==
    /\ CanStart
    /\ Serve("home", c, <<>>, home(session[c], messages))
    /\ ReadOnly(now)

Products(c, args, now) ==
    /\ CanStart
    /\ Serve("products", c, args, products_get(args, Startup(now).rows))
    /\ ReadOnly(now)

ContactSend(c, form, now) ==
    /\ CanStart
    /\ LET out == contact_send(form, now, Table(messages, msgSeq))
       IN  /\ out.t.seq <= MaxMsgSeq
           /\ messages' = out.t.rows
           /\ msgSeq' = out.t.seq
           /\ Serve("contact_send", c, form, out.resp)
    /\ products' = Startup(now).rows
    /\ prodSeq' = Startup(now).seq
    /\ UNCHANGED <<env, session, loggedOut, goneProd, goneMsg>>

LoginPost(c, form, now) ==
    /\ CanStart
    /\ LET out == login_post(session[c], form)
       IN  /\ session' = [session EXCEPT ![c] = out.sess]
           /\ loggedOut' = IF out.resp = Redirect("/admin")
                           THEN loggedOut \ {c} ELSE loggedOut
           /\ Serve("login_post", c, form, out.resp)
    /\ products' = Startup(now).rows
    /\ prodSeq' = Startup(now).seq
    /\ UNCHANGED <<env, messages, msgSeq, goneProd, goneMsg>>

Logout(c, now) ==
    /\ CanStart
    /\ LET out == logout(session[c])
       IN  /\ session' = [session EXCEPT ![c] = out.sess]
           /\ Serve("logout", c, <<>>, out.resp)
    /\ loggedOut' = IF IsAdmin(session[c]) THEN loggedOut \cup {c} ELSE loggedOut
    /\ products' = Startup(now).rows
    /\ prodSeq' = Startup(now).seq
    /\ UNCHANGED <<env, messages, msgSeq, goneProd, goneMsg>>

Admin(c, now) ==
    /\ CanStart
    /\ Serve("admin", c, <<>>, admin(session[c], messages))
    /\ ReadOnly(now)

AdminProducts(c, now) ==
    /\ CanStart
    /\ Serve("admin_products", c, <<>>, admin_products(session[c]))
    /\ ReadOnly(now)

\* a request that writes the products table only
WritesProducts(out) ==
    /\ out.t.seq <= MaxProdSeq
    /\ products' = out.t.rows
    /\ prodSeq' = out.t.seq
    /\ UNCHANGED <<env, session, messages, msgSeq, loggedOut, goneMsg>>

AdminAdd(c, form, now) ==
    /\ CanStart
    /\ LET out == admin_add(session[c], form, now, Startup(now))
       IN  /\ WritesProducts(out)
           /\ Serve("admin_add", c, form, out.resp)
    /\ UNCHANGED goneProd

AdminDelete(c, form, now) ==
    /\ CanStart
    /\ LET out == admin_delete(session[c], form, Startup(now))
       IN  /\ WritesProducts(out)
           /\ goneProd' = goneProd \cup (Ids(Startup(now).rows) \ Ids(out.t.rows))
           /\ Serve("admin_delete", c, form, out.resp)

AdminEdit(c, pid, now) ==
    /\ CanStart
    /\ Serve("admin_edit", c, pid, admin_edit(session[c], pid, Startup(now).rows))
    /\ ReadOnly(now)

AdminEditPost(c, pid, form, now) ==
    /\ CanStart
    /\ LET out == admin_edit_post(session[c], pid, form, now, Startup(now))
       IN  /\ WritesProducts(out)
           /\ Serve("admin_edit_post", c, [pid |-> pid, form |-> form], out.resp)
    /\ UNCHANGED goneProd

AdminMessages(c, now) ==
    /\ CanStart
    /\ Serve("admin_messages", c, <<>>, admin_messages(session[c], messages))
    /\ ReadOnly(now)

\* a request that writes the messages table only
WritesMessages(out, now) ==
    /\ messages' = out.t.rows
    /\ msgSeq' = out.t.seq
    /\ products' = Startup(now).rows
    /\ prodSeq' = Startup(now).seq
    /\ UNCHANGED <<env, session, loggedOut, goneProd>>

AdminMessageRead(c, form, now) ==
    /\ CanStart
    /\ LET out == admin_message_read(session[c], form, Table(messages, msgSeq))
       IN  /\ WritesMessages(out, now)
           /\ Serve("admin_message_read", c, form, out.resp)
    /\ UNCHANGED goneMsg

AdminMessageDelete(c, form, now) ==
    /\ CanStart
    /\ LET out == admin_message_delete(session[c], form, Table(messages, msgSeq))
       IN  /\ WritesMessages(out, now)
           /\ goneMsg' = goneMsg \cup (Ids(messages) \ Ids(out.t.rows))
           /\ Serve("admin_message_delete", c, form, out.resp)

----------------------------------------------------------------------------
(* The requests, statement by statement: two threads serve requests at the *)
(* same time, each on its own connection.  A statement that reads sees     *)
(* what is committed.  A statement that writes opens a transaction and     *)
(* takes the write lock of the database file, which it holds up to its     *)
(* commit; while another connection holds it the statement waits, and      *)
(* after the timeout of the connection raises OperationalError.            *)

\* a worker between two requests
Idle ==
    [pc |-> "idle", route |-> "none", client |-> "c1", in |-> <<>>, now |-> 1,
     staged |-> Table(<<>>, 0), new |-> <<>>,
     startGone |-> {}]  \* history: goneProd when _startup of the request ended

\* the connection of some worker is in a transaction that has written
Locked == \E w \in Workers : inflight[w].pc \in {"seed_commit", "commit"}

Goto(w, pc) == inflight' = [inflight EXCEPT ![w].pc = pc]

\* the response, close_db, and the worker is free again
Finish(w, resp) ==
    /\ last' = [route |-> inflight[w].route, client |-> inflight[w].client,
                in |-> inflight[w].in, resp |-> resp]
    /\ inflight' = [inflight EXCEPT ![w] = Idle]

\* a request arrives; init_db finds the tables
Begin(w, route, c, in, now) ==
    /\ inflight[w].pc = "idle"
    /\ inflight' = [inflight EXCEPT ![w] =
                       [Idle EXCEPT !.pc = "count", !.route = route,
                                    !.client = c, !.in = in, !.now = now]]
    /\ UNCHANGED <<env, session, products, prodSeq, messages, msgSeq, last,
                   loggedOut, goneProd, goneMsg>>

\* seed_products_if_empty: SELECT COUNT(*) AS n FROM products
SeedCount(w) ==
    /\ inflight[w].pc = "count"
    /\ inflight' = [inflight EXCEPT
           ![w].pc = IF Cardinality(Ids(products)) = 0 THEN "seed" ELSE "handler",
           ![w].startGone = goneProd]
    /\ UNCHANGED <<env, session, products, prodSeq, messages, msgSeq, last,
                   loggedOut, goneProd, goneMsg>>

\* seed_products_if_empty, n == 0: executemany runs the three INSERTs in a
\* transaction of this connection
SeedExecute(w) ==
    /\ inflight[w].pc = "seed"
    /\ ~Locked
    /\ LET staged == SeedInserts(Table(products, prodSeq), inflight[w].now)
       IN  /\ staged.seq <= MaxProdSeq
           /\ inflight' = [inflight EXCEPT ![w].pc = "seed_commit",
                                           ![w].staged = staged]
    /\ UNCHANGED <<env, session, products, prodSeq, messages, msgSeq, last,
                   loggedOut, goneProd, goneMsg>>

\* db.commit() of the seeding
SeedCommit(w) ==
    /\ inflight[w].pc = "seed_commit"
    /\ products' = inflight[w].staged.rows
    /\ prodSeq' = inflight[w].staged.seq
    /\ inflight' = [inflight EXCEPT ![w].pc = "handler",
                                    ![w].startGone = goneProd]
    /\ UNCHANGED <<env, session, messages, msgSeq, last, loggedOut, goneProd,
                   goneMsg>>

\* a statement that writes has waited for the lock up to the timeout: the
\* request ends with the exception
Busy(w) ==
    /\ inflight[w].pc \in {"seed", "write", "update"}
    /\ Locked
    /\ Finish(w, ServerError("OperationalError"))
    /\ UNCHANGED <<env, session, products, prodSeq, messages, msgSeq,
                   loggedOut, goneProd, goneMsg>>

\* login_post
HandleLogin(w) ==
    /\ inflight[w].pc = "handler" /\ inflight[w].route = "login_post"
    /\ LET c == inflight[w].client
           out == login_post(session[c], inflight[w].in)
       IN  /\ session' = [session EXCEPT ![c] = out.sess]
           /\ loggedOut' = IF out.resp = Redirect("/admin")
                           THEN loggedOut \ {c} ELSE loggedOut
           /\ Finish(w, out.resp)
    /\ UNCHANGED <<env, products, prodSeq, messages, msgSeq, goneProd, goneMsg>>

\* products: the listing is one SELECT
HandleProducts(w) ==
    /\ inflight[w].pc = "handler" /\ inflight[w].route = "products"
    /\ Finish(w, products_get(inflight[w].in, products))
    /\ UNCHANGED <<env, session, products, prodSeq, messages, msgSeq,
                   loggedOut, goneProd, goneMsg>>

\* admin_edit: the form of one product, read with fetch_product
HandleAdminEdit(w) ==
    /\ inflight[w].pc = "handler" /\ inflight[w].route = "admin_edit"
    /\ Finish(w, admin_edit(session[inflight[w].client], inflight[w].in, products))
    /\ UNCHANGED <<env, session, products, prodSeq, messages, msgSeq,
                   loggedOut, goneProd, goneMsg>>

\* admin_delete up to its DELETE: require_admin and safe_int
HandleAdminDelete(w) ==
    /\ inflight[w].pc = "handler" /\ inflight[w].route = "admin_delete"
    /\ LET out == admin_delete(session[inflight[w].client], inflight[w].in,
                               Table(products, prodSeq))
       IN  IF out.resp = Redirect("/admin/products")
           THEN Goto(w, "write") /\ UNCHANGED last
           ELSE Finish(w, out.resp)
    /\ UNCHANGED <<env, session, products, prodSeq, messages, msgSeq,
                   loggedOut, goneProd, goneMsg>>

\* db.execute("DELETE FROM products WHERE id=?")
DeleteExecute(w) ==
    /\ inflight[w].pc = "write" /\ inflight[w].route = "admin_delete"
    /\ ~Locked
    /\ inflight' = [inflight EXCEPT
           ![w].pc = "commit",
           ![w].staged = admin_delete(session[inflight[w].client], inflight[w].in,
                                      Table(products, prodSeq)).t]
    /\ UNCHANGED <<env, session, products, prodSeq, messages, msgSeq, last,
                   loggedOut, goneProd, goneMsg>>

\* admin_edit_post up to its UPDATE: require_admin, fetch_product, the fields
\* of the form; the row the UPDATE will write is kept
HandleAdminEditPost(w) ==
    /\ inflight[w].pc = "handler" /\ inflight[w].route = "admin_edit_post"
    /\ LET pid == inflight[w].in.pid
           out == admin_edit_post(session[inflight[w].client], pid,
                                  inflight[w].in.form, inflight[w].now,
                                  Table(products, prodSeq))
       IN  IF out.resp = Redirect("/admin/products") /\ pid \in Ids(products)
           THEN /\ inflight' = [inflight EXCEPT ![w].pc = "update",
                                                ![w].new = out.t.rows[pid]]
                /\ UNCHANGED last
           ELSE Finish(w, out.resp)
    /\ UNCHANGED <<env, session, products, prodSeq, messages, msgSeq,
                   loggedOut, goneProd, goneMsg>>

\* db.execute("UPDATE products SET ... WHERE id=?"): the row is looked up
\* again, by the statement
UpdateExecute(w) ==
    /\ inflight[w].pc = "update"
    /\ ~Locked
    /\ inflight' = [inflight EXCEPT
           ![w].pc = "commit",
           ![w].staged = Table(UpdateWhereId(products, inflight[w].in.pid,
                                             inflight[w].new), prodSeq)]
    /\ UNCHANGED <<env, session, products, prodSeq, messages, msgSeq, last,
                   loggedOut, goneProd, goneMsg>>

\* db.commit() of admin_delete and of admin_edit_post, and the redirect
Commit(w) ==
    /\ inflight[w].pc = "commit"
    /\ products' = inflight[w].staged.rows
    /\ prodSeq' = inflight[w].staged.seq
    /\ goneProd' = goneProd \cup (Ids(products) \ Ids(inflight[w].staged.rows))
    /\ Finish(w, Redirect("/admin/products"))
    /\ UNCHANGED <<env, session, messages, msgSeq, loggedOut, goneMsg>>

----------------------------------------------------------------------------
(* Inputs *)

\* twenty digits: above 2^63-1
HugeText == [i \in 1..20 |-> "9"]

FormA ==
    [name |-> <<" ", "V", "a", "z", "o", " ">>,
     category |-> <<"D", "e", "k", "o", "r">>,
     material |-> <<"P", "L", "A">>,
     price |-> <<" ", "1", "5", " ">>,
     stock |-> <<"a", "b", "c">>,
     lead_time_days |-> <<"x">>,
     photo_url |-> <<" ", "p", " ">>]

FormB ==
    [name |-> <<"K", "u", "t", "u">>,
     category |-> <<"O", "f", "i", "s">>,
     material |-> <<"P", "E", "T", "G">>,
     price |-> <<"-", "5">>,
     stock |-> <<"+", "7">>,
     lead_time_days |-> <<"-", "3">>,
     photo_url |-> <<>>,
     stl_url |-> <<"s">>]

FormHuge == [FormB EXCEPT !.price = HugeText]
FormNoName == [FormB EXCEPT !.name = <<" ", " ">>]
FormNoMaterial == [FormB EXCEPT !.material = <<>>]
FormNoCategory == [k \in DOMAIN FormA \ {"category"} |-> FormA[k]]

\* only the required fields: every number is missing
FormC ==
    [name |-> <<"R", "a", "f">>, category |-> <<"O", "f", "i", "s">>,
     material |-> <<"A", "B", "S">>]

ProductForms ==
    {FormA, FormB, FormC, FormHuge, FormNoName, FormNoMaterial, FormNoCategory}

IdForms(n) ==
    {[id |-> IntText(i)] : i \in 1..n}
        \cup {[id |-> <<"a", "b", "c">>], [id |-> HugeText]}

PathIds(n) == 1..n \cup {PyHuge}

ContactA ==
    [name |-> <<" ", "A", "l", "i">>, email |-> <<"a", "@", "b">>,
     msg |-> <<"h", "i", "\n">>]

ContactForms ==
    {ContactA,
     [ContactA EXCEPT !.name = <<" ">>],
     [ContactA EXCEPT !.msg = <<>>],
     [k \in {"name", "msg"} |-> ContactA[k]]}

Usernames == {ADMIN_USER, <<" ">> \o ADMIN_USER \o <<" ">>, <<"r", "o", "o", "t">>}
Passwords == {<<"s", "3">>, <<>>, <<"x">>}
LoginForms ==
    [username : Usernames, password : {<<"s", "3">>}]
        \cup [username : {ADMIN_USER}, password : Passwords]
        \cup [username : {ADMIN_USER}] \cup [password : {<<"s", "3">>}]

\* the filters of the catalog
ListQueries ==
    {<<>>, <<"s", "t", "a", "n", "d">>, <<" ", "S", "T", "A", "N", "D", " ">>,
     <<"ü", "s", "t">>, <<"Ü", "S", "T">>, <<"_">>, <<"a", "%", "t">>}

ListArgs ==
    [q : ListQueries, cat : {<<>>, <<" ", "S", "t", "a", "n", "d", " ">>},
     mat : {<<>>, <<"P", "L", "A">>}]
        \cup {<<>>, [q |-> <<"s", "t", "a", "n", "d">>],
              [cat |-> <<"S", "t", "a", "n", "d">>]}

----------------------------------------------------------------------------
(* Specifications *)

NoRequest == [route |-> "none", client |-> "c1", in |-> <<>>, resp |-> None]

InitWith(E) ==
    /\ env \in E
    /\ session = [c \in Clients |-> {}]
    /\ products = <<>>
    /\ prodSeq = 0
    /\ messages = <<>>
    /\ msgSeq = 0
    /\ last = NoRequest
    /\ loggedOut = {}
    /\ goneProd = {}
    /\ goneMsg = {}
    /\ inflight = [w \in Workers |-> Idle]

Init == InitWith(Envs)

\* Every route, every input
Next ==
    \E c \in Clients, now \in Times :
        \/ Home(c, now)
        \/ \E a \in ListArgs : Products(c, a, now)
        \/ \E f \in ContactForms : ContactSend(c, f, now)
        \/ \E f \in LoginForms : LoginPost(c, f, now)
        \/ Logout(c, now)
        \/ Admin(c, now)
        \/ AdminProducts(c, now)
        \/ \E f \in ProductForms : AdminAdd(c, f, now)
        \/ \E f \in IdForms(MaxProdSeq) : AdminDelete(c, f, now)
        \/ \E pid \in PathIds(MaxProdSeq) : AdminEdit(c, pid, now)
        \/ \E pid \in PathIds(MaxProdSeq), f \in ProductForms :
               AdminEditPost(c, pid, f, now)
        \/ AdminMessages(c, now)
        \/ \E f \in IdForms(MaxMsgSeq) : AdminMessageRead(c, f, now)
        \/ \E f \in IdForms(MaxMsgSeq) : AdminMessageDelete(c, f, now)

Spec == Init /\ [][Next]_vars

----------------------------------------------------------------------------
(* SpecAuth: two clients and both configurations, every login input, and   *)
(* every route with one input each                                         *)

AuthTimes == {1}
Id1 == [id |-> <<"1">>]

NextAuth ==
    \E c \in Clients, now \in AuthTimes :
        \/ ContactSend(c, ContactA, now)
        \/ \E f \in LoginForms : LoginPost(c, f, now)
        \/ Logout(c, now)
        \/ Admin(c, now)
        \/ AdminProducts(c, now)
        \/ AdminAdd(c, FormB, now)
        \/ AdminDelete(c, Id1, now)
        \/ AdminEdit(c, 1, now)
        \/ AdminEditPost(c, 1, FormA, now)
        \/ AdminMessages(c, now)
        \/ AdminMessageRead(c, Id1, now)
        \/ AdminMessageDelete(c, Id1, now)

SpecAuth == Init /\ [][NextAuth]_vars

AdminRoutes ==
    {"admin", "admin_products", "admin_add", "admin_delete", "admin_edit",
     "admin_edit_post", "admin_messages", "admin_message_read",
     "admin_message_delete"}

\* what _startup alone leaves in the products table
OnlySeeded ==
    \E now \in Times :
        /\ products' = seed_products_if_empty(Table(products, prodSeq), now).rows
        /\ prodSeq' = seed_products_if_empty(Table(products, prodSeq), now).seq

\* C1: a request of an admin-only route from a session without is_admin is
\* answered with a redirect to /login, and past _startup it writes nothing:
\* the messages are as they were and the products are what the seeding left.
C1_AdminRoutesGated ==
    [][ (last'.route \in AdminRoutes /\ ~IsAdmin(session[last'.client]))
            => /\ last'.resp = Redirect("/login")
               /\ messages' = messages /\ msgSeq' = msgSeq
               /\ OnlySeeded
               /\ session' = session ]_vars

\* C1 witness: a client without the flag asked to delete product 1 and message
\* 1 still there, and was sent to /login
C1_Witness ==
    /\ last.route \in {"admin_delete", "admin_message_delete"}
    /\ ~IsAdmin(session[last.client])
    /\ last.resp = Redirect("/login")
    /\ 1 \in Ids(products)
    /\ 1 \in Ids(messages)

\* the credentials as submitted, and as login_post reads them
SubmittedExactly(form) ==
    /\ "username" \in DOMAIN form /\ form.username = ADMIN_USER
    /\ FormGetOrEmpty(form, "password") = get_admin_pass

SubmittedTrimmed(form) ==
    /\ Strip(FormGetOrEmpty(form, "username")) = ADMIN_USER
    /\ FormGetOrEmpty(form, "password") = get_admin_pass

\* C2 as stated: the flag becomes set only by a POST /login whose submitted
\* username equals "admin" and whose password equals the configured one.
C2_Original ==
    [][ \A c \in Clients :
          (~IsAdmin(session[c]) /\ IsAdmin(session'[c]))
            => /\ last'.route = "login_post" /\ last'.client = c
               /\ SubmittedExactly(last'.in) ]_vars

\* C2 amended: the flag is absent at the start; a POST /login sets it exactly
\* when the username, trimmed of surrounding whitespace, equals "admin" and
\* the password (missing read as empty) equals the configured one (unset read
\* as empty); no other request sets it, and a GET /admin without it redirects
\* to /login.
C2_LoginSetsFlag ==
    [][ /\ \A c \in Clients :
             (~IsAdmin(session[c]) /\ IsAdmin(session'[c]))
                => last'.route = "login_post" /\ last'.client = c
        /\ (last'.route = "login_post" /\ ~IsAdmin(session[last'.client]))
             => (IsAdmin(session'[last'.client]) <=> SubmittedTrimmed(last'.in))
        /\ (last'.route = "login_post" /\ ~SubmittedTrimmed(last'.in))
             => session' = session
        /\ (last'.route = "admin" /\ ~IsAdmin(session[last'.client]))
             => last'.resp = Redirect("/login") ]_vars

\* C2 witness: a login with a padded user name has set the flag
C2_Witness ==
    /\ last.route = "login_post"
    /\ last.in.username # ADMIN_USER
    /\ Strip(last.in.username) = ADMIN_USER
    /\ IsAdmin(session[last.client])
    /\ get_admin_pass # <<>>

\* C3: with no admin password configured no login sets the flag.
C3_NoPasswordNoLogin ==
    get_admin_pass = <<>> => \A c \in Clients : ~IsAdmin(session[c])

\* C4: a logout empties the session, and until the next successful login of
\* that client the flag stays absent and its admin requests go to /login.
C4_LogoutClears ==
    /\ \A c \in loggedOut : session[c] = {}
    /\ (last.route = "logout") => session[last.client] = {}
    /\ (last.route \in AdminRoutes /\ last.client \in loggedOut)
          => last.resp = Redirect("/login")

\* C4 witness: a client that logged out of an admin session asks to delete
\* product 1, is sent to /login, and the product is still there
C4_Witness ==
    /\ last.client \in loggedOut
    /\ last.route = "admin_delete"
    /\ last.resp = Redirect("/login")
    /\ 1 \in Ids(products)

----------------------------------------------------------------------------
(* SpecIds: one admin; rows of both tables are created and deleted, by     *)
(* every id, and the table is seeded again when its last row is gone       *)

AdminLogin == [username |-> ADMIN_USER, password |-> <<"s", "3">>]
TheClient == {"c1"}

InitSet == InitWith({SetEnv})

NextIds ==
    \E c \in TheClient, now \in AuthTimes :
        \/ LoginPost(c, AdminLogin, now)
        \/ ContactSend(c, ContactA, now)
        \/ AdminAdd(c, FormB, now)
        \/ \E f \in IdForms(MaxProdSeq) : AdminDelete(c, f, now)
        \/ AdminEditPost(c, 4, FormA, now)
        \/ \E f \in IdForms(MaxMsgSeq) : AdminMessageDelete(c, f, now)

SpecIds == InitSet /\ [][NextIds]_vars

\* C5: an id a step assigns in a table is greater than every id the table
\* holds or has held: ids are never reused, whatever was deleted before.
C5_IdsNeverReused ==
    [][ /\ \A i \in Ids(products') \ Ids(products) :
             \A j \in Ids(products) \cup goneProd : i > j
        /\ \A i \in Ids(messages') \ Ids(messages) :
             \A j \in Ids(messages) \cup goneMsg : i > j ]_vars

\* C5 witness: every seed row was deleted and the table seeded again with
\* ids 4..6; message 1 was deleted and the next message got id 2
C5_Witness ==
    /\ {1, 2, 3} \subseteq goneProd
    /\ Ids(products) = {4, 5, 6}
    /\ 1 \in goneMsg
    /\ 2 \in Ids(messages)

\* the id a delete or read form names, as the handlers read it
FormId(form) == safe_int(FormGetStr(form, "id"), 0, 0)

\* C8 as stated: a deleted id is absent in every later state; deleting an id
\* that does not exist raises no error and leaves the table unchanged; the
\* same for messages.
C8_DeleteIdempotent ==
    [][ /\ goneProd' \cap Ids(products') = {}
        /\ goneMsg' \cap Ids(messages') = {}
        /\ (last'.route = "admin_delete" /\ IsAdmin(session[last'.client]))
             => /\ last'.resp = Redirect("/admin/products")
                /\ FormId(last'.in) \notin Ids(products')
                /\ (FormId(last'.in) \notin Ids(products) /\ products # <<>>)
                      => products' = products
        /\ (last'.route = "admin_message_delete" /\ IsAdmin(session[last'.client]))
             => /\ last'.resp = Redirect("/admin/messages")
                /\ FormId(last'.in) \notin Ids(messages')
                /\ FormId(last'.in) \notin Ids(messages) => messages' = messages
      ]_vars

\* what holds of deletes: the same, for the ids that fit SQLite's INTEGER;
\* an id above it ends the request with OverflowError, the table unchanged
DeleteIdempotentWithin64Bits ==
    [][ /\ goneProd' \cap Ids(products') = {}
        /\ goneMsg' \cap Ids(messages') = {}
        /\ (last'.route = "admin_delete" /\ IsAdmin(session[last'.client]))
             => /\ last'.resp = IF SqliteInt(FormId(last'.in))
                                THEN Redirect("/admin/products")
                                ELSE ServerError("OverflowError")
                /\ FormId(last'.in) \notin Ids(products')
                /\ (FormId(last'.in) \notin Ids(products) /\ products # <<>>)
                      => products' = products
        /\ (last'.route = "admin_message_delete" /\ IsAdmin(session[last'.client]))
             => /\ last'.resp = IF SqliteInt(FormId(last'.in))
                                THEN Redirect("/admin/messages")
                                ELSE ServerError("OverflowError")
                /\ FormId(last'.in) \notin Ids(messages')
                /\ FormId(last'.in) \notin Ids(messages) => messages' = messages
      ]_vars

----------------------------------------------------------------------------
(* SpecUnread: one admin; messages are submitted with every contact form,  *)
(* marked read by every id, and deleted; the pages show the count          *)

NextUnread ==
    \E c \in TheClient, now \in AuthTimes :
        \/ LoginPost(c, AdminLogin, now)
        \/ Logout(c, now)
        \/ Home(c, now)
        \/ \E f \in ContactForms : ContactSend(c, f, now)
        \/ Admin(c, now)
        \/ AdminMessages(c, now)
        \/ \E f \in IdForms(MaxMsgSeq) : AdminMessageRead(c, f, now)
        \/ AdminMessageDelete(c, Id1, now)

SpecUnread == InitSet /\ [][NextUnread]_vars

\* a field that is missing, empty or whitespace only
Blank(form, k) ==
    k \notin DOMAIN form \/ \A i \in 1..Len(form[k]) : form[k][i] \in Whitespace

ReadOnes(rows) == {i \in Ids(rows) : rows[i].is_read = 1}

\* C6: the unread count is the number of stored messages not read, never
\* negative, and the pages show it; a successful contact submission raises it
\* by 1, a failed one leaves it; marking an unread message read lowers it by
\* 1, marking a read or a missing one leaves it.
C6_UnreadCount ==
    [][ LET n   == count_unread_messages(messages)
            n2  == count_unread_messages(messages')
            in  == last'.in
        IN  /\ n2 >= 0
            /\ n2 = Cardinality(Ids(messages')) - Cardinality(ReadOnes(messages'))
            /\ "unread" \in DOMAIN last'.resp => last'.resp.unread = n2
            /\ last'.route = "contact_send"
                  => IF Blank(in, "name") \/ Blank(in, "email") \/ Blank(in, "msg")
                     THEN n2 = n
                     ELSE n2 = n + 1 /\ Cardinality(Ids(messages')) =
                                           Cardinality(Ids(messages)) + 1
            /\ (last'.route = "admin_message_read" /\ IsAdmin(session[last'.client]))
                  => IF FormId(in) \in Ids(messages) /\ messages[FormId(in)].is_read = 0
                     THEN n2 = n - 1 /\ messages'[FormId(in)].is_read = 1
                     ELSE n2 = n /\ messages' = messages
      ]_vars

\* C6 witness: of two messages the admin has marked one read; one is unread
C6_Witness ==
    /\ last.route = "admin_message_read"
    /\ IsAdmin(session[last.client])
    /\ Cardinality(Ids(messages)) = 2
    /\ FormId(last.in) \in ReadOnes(messages)
    /\ count_unread_messages(messages) = 1

\* C12: a message is unread when it is created, and a message that is read
\* stays read, whatever request is served, for as long as it is stored.
C12_ReadIsOneWay ==
    [][ /\ \A i \in Ids(messages') \ Ids(messages) : messages'[i].is_read = 0
        /\ \A i \in Ids(messages') \cap Ids(messages) :
               messages[i].is_read = 1 => messages'[i].is_read = 1 ]_vars

\* C12 witness: a message was read, and requests on another message and on
\* an id out of range have been served since
C12_Witness ==
    /\ 1 \in ReadOnes(messages)
    /\ 2 \in Ids(messages) \ ReadOnes(messages)
    /\ last.route = "admin_message_read"
    /\ IsAdmin(session[last.client])
    /\ FormId(last.in) \notin Ids(messages)

----------------------------------------------------------------------------
(* SpecForms: one admin; products are added and product 1 edited with      *)
(* every product form, messages submitted with every contact form          *)

NextForms ==
    \E c \in TheClient, now \in AuthTimes :
        \/ LoginPost(c, AdminLogin, now)
        \/ \E f \in ContactForms : ContactSend(c, f, now)
        \/ \E f \in ProductForms : AdminAdd(c, f, now)
        \/ \E f \in ProductForms : AdminEditPost(c, 1, f, now)

SpecForms == InitSet /\ [][NextForms]_vars

BlankRequired(form) ==
    Blank(form, "name") \/ Blank(form, "category") \/ Blank(form, "material")

\* C9: a request that fails validation writes nothing: a contact form with a
\* blank name, email or msg adds no message; an add or edit form with a blank
\* name, category or material leaves the products as _startup left them.
C9_ValidationWritesNothing ==
    [][ /\ (/\ last'.route = "contact_send"
            /\ (Blank(last'.in, "name") \/ Blank(last'.in, "email")
                  \/ Blank(last'.in, "msg")))
              => messages' = messages /\ msgSeq' = msgSeq
        /\ (last'.route = "admin_add" /\ BlankRequired(last'.in))
              => OnlySeeded
        /\ (last'.route = "admin_edit_post" /\ BlankRequired(last'.in.form))
              => OnlySeeded ]_vars

\* C9 witness: the admin posted an edit of product 1 with a blank name, and
\* the product still has its seed name
C9_Witness ==
    /\ last.route = "admin_edit_post"
    /\ IsAdmin(session[last.client])
    /\ last.in.form = FormNoName
    /\ last.in.pid \in Ids(products)
    /\ products[last.in.pid].name = SeedName1

\* the numeric inputs of the model that int() parses, with their values
ParsedInputs ==
    (<<" ", "1", "5", " ">> :> 15) @@ (<<"-", "5">> :> (0 - 5))
        @@ (<<"+", "7">> :> 7) @@ (<<"-", "3">> :> (0 - 3))

\* the parsed value, or the default, raised to at least 0
Expect(form, k, default) ==
    LET v == IF k \in DOMAIN form /\ form[k] \in DOMAIN ParsedInputs
             THEN ParsedInputs[form[k]] ELSE default
    IN  IF v < 0 THEN 0 ELSE v

ExpectNumbers(row, form) ==
    /\ row.price = Expect(form, "price", 0)
    /\ row.stock = Expect(form, "stock", 0)
    /\ row.lead_time_days = Expect(form, "lead_time_days", 1)

\* sqlite_sequence after _startup
SeededSeq == IF products = <<>> THEN prodSeq + 3 ELSE prodSeq

\* C10: the price and stock an add or edit stores are the integer parsed from
\* the trimmed input, or 0 when it does not parse, raised to at least 0; the
\* lead time likewise with 1 for an input that does not parse; and no stored
\* product has a negative price, stock or lead time.
C10_NumericCoercion ==
    [][ /\ (last'.route = "admin_add" /\ prodSeq' > SeededSeq)
              => ExpectNumbers(products'[prodSeq'], last'.in)
        /\ (/\ last'.route = "admin_edit_post"
            /\ last'.resp = Redirect("/admin/products")
            /\ last'.in.pid \in Ids(products'))
              => ExpectNumbers(products'[last'.in.pid], last'.in.form)
        /\ \A i \in Ids(products') :
              /\ products'[i].price >= 0
              /\ products'[i].stock >= 0
              /\ products'[i].lead_time_days >= 0 ]_vars

\* C10 witness: product 1 was edited with price " 15 ", stock "abc", lead "x"
\* and holds 15, 0, 1; an added product with "-5", "+7", "-3" holds 0, 7, 0
C10_Witness ==
    /\ last.route = "admin_edit_post" /\ last.in.form = FormA
    /\ 1 \in Ids(products)
    /\ products[1].price = 15 /\ products[1].stock = 0
    /\ products[1].lead_time_days = 1
    /\ \E i \in Ids(products) :
          /\ products[i].name = <<"K", "u", "t", "u">>
          /\ products[i].price = 0 /\ products[i].stock = 7
          /\ products[i].lead_time_days = 0

----------------------------------------------------------------------------
(* SpecEdit: one admin, two clock values; products 1 and 4 and a product   *)
(* beyond SQLite's range are edited with every form, added and deleted     *)

EditIds == {1, 4, PyHuge}

NextEdit ==
    \E c \in TheClient, now \in Times :
        \/ LoginPost(c, AdminLogin, now)
        \/ AdminAdd(c, FormB, now)
        \/ AdminDelete(c, Id1, now)
        \/ \E pid \in EditIds : AdminEdit(c, pid, now)
        \/ \E pid \in EditIds, f \in ProductForms : AdminEditPost(c, pid, f, now)

SpecEdit == InitSet /\ [][NextEdit]_vars

\* the mutable fields a valid form of the model asks to store
Wanted(form) ==
    CASE form = FormA ->
           [name |-> <<"V", "a", "z", "o">>, category |-> <<"D", "e", "k", "o", "r">>,
            material |-> <<"P", "L", "A">>, price |-> 15, stock |-> 0,
            lead_time_days |-> 1, photo_url |-> <<"p">>, stl_url |-> <<>>]
      [] form = FormB ->
           [name |-> <<"K", "u", "t", "u">>, category |-> <<"O", "f", "i", "s">>,
            material |-> <<"P", "E", "T", "G">>, price |-> 0, stock |-> 7,
            lead_time_days |-> 0, photo_url |-> <<>>, stl_url |-> <<"s">>]
      [] form = FormC ->
           [name |-> <<"R", "a", "f">>, category |-> <<"O", "f", "i", "s">>,
            material |-> <<"A", "B", "S">>, price |-> 0, stock |-> 0,
            lead_time_days |-> 1, photo_url |-> <<>>, stl_url |-> <<>>]
      [] form = FormHuge ->
           [name |-> <<"K", "u", "t", "u">>, category |-> <<"O", "f", "i", "s">>,
            material |-> <<"P", "E", "T", "G">>, price |-> PyHuge, stock |-> 7,
            lead_time_days |-> 0, photo_url |-> <<>>, stl_url |-> <<"s">>]

MutableFields ==
    {"name", "category", "material", "price", "stock", "lead_time_days",
     "photo_url", "stl_url"}

\* the edit of row pid to the fields of form, every other row left alone
Overwritten(pid, form) ==
    /\ Ids(products') = Ids(products)
    /\ \A k \in MutableFields : products'[pid][k] = Wanted(form)[k]
    /\ products'[pid].created_at = products[pid].created_at
    /\ \A i \in Ids(products) \ {pid} : products'[i] = products[i]
    /\ prodSeq' = prodSeq

\* C7 as stated: an admin edit with valid fields overwrites every mutable
\* field of that product and leaves its id, its created_at and every other
\* product unchanged; for an id that no product has it changes nothing and
\* redirects to the product list.
C7_EditOverwrites ==
    [][ (/\ last'.route = "admin_edit_post"
         /\ IsAdmin(session[last'.client])
         /\ products # <<>>
         /\ ~BlankRequired(last'.in.form))
           => IF last'.in.pid \in Ids(products)
              THEN Overwritten(last'.in.pid, last'.in.form)
              ELSE /\ products' = products /\ prodSeq' = prodSeq
                   /\ last'.resp = Redirect("/admin/products") ]_vars

\* what holds of edits: the same, when the id and the numbers fit SQLite's
\* INTEGER; otherwise the request ends with OverflowError and writes nothing
EditOverwritesWithin64Bits ==
    [][ (/\ last'.route = "admin_edit_post"
         /\ IsAdmin(session[last'.client])
         /\ products # <<>>
         /\ ~BlankRequired(last'.in.form))
           => IF ~SqliteInt(last'.in.pid) \/ ~SqliteInt(Wanted(last'.in.form).price)
              THEN /\ products' = products /\ prodSeq' = prodSeq
                   /\ last'.resp =
                        IF ~SqliteInt(last'.in.pid) \/ last'.in.pid \in Ids(products)
                        THEN ServerError("OverflowError")
                        ELSE Redirect("/admin/products")
              ELSE IF last'.in.pid \in Ids(products)
              THEN Overwritten(last'.in.pid, last'.in.form)
              ELSE /\ products' = products /\ prodSeq' = prodSeq
                   /\ last'.resp = Redirect("/admin/products") ]_vars

\* a row edited at a time other than the one it was created at
EditedLater ==
    /\ last.route = "admin_edit_post" /\ last.in.form = FormA
    /\ 4 \in Ids(products)
    /\ products[4].name = <<"V", "a", "z", "o">>
    /\ products[4].created_at # products[1].created_at

----------------------------------------------------------------------------
(* SpecList: the catalog is listed under every filter of the model while   *)
(* an admin adds and deletes products                                      *)

\* a configuration that sets the password and no WhatsApp number
PassEnv == [ADMIN_PASS |-> <<"s", "3">>]

FormStand ==
    [name |-> <<"A", "_", "B", " ", "Ü", "S", "T">>, category |-> <<"S", "t", "a", "n", "d">>, material |-> <<"P", "E", "T", "G">>]

ListForms == {FormStand}

ListDeletes == {[id |-> IntText(i)] : i \in {1, 4}}

NextList ==
    \E c \in TheClient, now \in AuthTimes :
        \/ LoginPost(c, AdminLogin, now)
        \/ \E f \in ListForms : AdminAdd(c, f, now)
        \/ \E f \in ListDeletes : AdminDelete(c, f, now)
        \/ \E a \in ListArgs : Products(c, a, now)

SpecList == InitWith({PassEnv}) /\ [][NextList]_vars

IsDescending(seq) == \A k \in 1..(Len(seq) - 1) : seq[k] > seq[k + 1]

\* the row passes the filters, each read after trimming: its name contains q
\* whatever the case of the letters, its category is cat, its material is mat
PassesFilters(row, args) ==
    LET q   == Strip(ArgGet(args, "q"))
        cat == Strip(ArgGet(args, "cat"))
        mat == Strip(ArgGet(args, "mat"))
    IN  /\ q # <<>> => Contains(PyLower(row.name), PyLower(q))
        /\ cat # <<>> => row.category = cat
        /\ mat # <<>> => row.material = mat

ListsExactlyThePassing ==
    /\ IsDescending(last.resp.ids)
    /\ {last.resp.ids[k] : k \in 1..Len(last.resp.ids)}
           = {i \in Ids(products) : PassesFilters(products[i], last.in)}

\* C11 as stated: the listing under the filters (q, cat, mat) is, by id
\* descending, exactly the stored products whose name contains q as a
\* case-insensitive substring, whose category equals cat and whose material
\* equals mat, an empty or omitted filter being no condition.
C11_FilteredListing ==
    last.route = "products" => ListsExactlyThePassing

\* the letters outside ASCII, and the two characters LIKE reads as wildcards
NonAscii == {"Ü", "ü", "Ö", "ö", "Ç", "ç", "U+0131", "U+015F"}
LikeWildcards == {"%", "_"}

PlainQuery(q) ==
    \A k \in 1..Len(q) : q[k] \notin NonAscii \cup LikeWildcards

\* what holds of the listing: the same, for a q of ASCII characters that
\* holds neither % nor _
ListingForPlainQueries ==
    (last.route = "products" /\ PlainQuery(ArgGet(last.in, "q")))
        => ListsExactlyThePassing

\* a filtered listing that drops some product and keeps another
ListedSome ==
    /\ last.route = "products"
    /\ Strip(ArgGet(last.in, "q")) # <<>>
    /\ Strip(ArgGet(last.in, "mat")) # <<>>
    /\ Len(last.resp.ids) >= 2
    /\ Len(last.resp.ids) < Cardinality(Ids(products))

----------------------------------------------------------------------------
(* SpecLink: the catalog is listed under four configurations of the        *)
(* WhatsApp number while an admin adds, edits and deletes products         *)

BlankEnv == [ADMIN_PASS |-> <<"s", "3">>, WHATSAPP_NUMBER |-> <<" ", "\t">>]
PaddedEnv == [ADMIN_PASS |-> <<"s", "3">>, WHATSAPP_NUMBER |-> <<" ", "9", "0", "5", " ">>]
LinkEnvs == {NoEnv, SetEnv, BlankEnv, PaddedEnv}

\* a name that holds what looks like an escape, and characters of URLs
FormLink ==
    [name |-> <<"R", "%", "2", "C", " ", "&", "?", "=", "#", "1">>, category |-> <<"O", "f", "i", "s", "/", "E", "v">>, material |-> <<"P", "L", "A", "+">>,
     price |-> <<"1", "2", "0">>, stock |-> <<"3">>]

LinkArgs == {<<>>, [q |-> <<"s", "t", "a", "n", "d">>]}

NextLink ==
    \E c \in TheClient, now \in AuthTimes :
        \/ LoginPost(c, AdminLogin, now)
        \/ AdminAdd(c, FormLink, now)
        \/ AdminEditPost(c, 1, FormA, now)
        \/ AdminDelete(c, Id1, now)
        \/ \E a \in LinkArgs : Products(c, a, now)

SpecLink == InitWith(LinkEnvs) /\ [][NextLink]_vars

\* the number the link is built with: the configured one without the
\* whitespace around it
LinkNumber == Strip(get_whatsapp_number)

LinkPrefix == <<"h", "t", "t", "p", "s", ":", "/", "/", "w", "a", ".", "m", "e", "/">> \o LinkNumber \o <<"?", "t", "e", "x", "t", "=">>

DecodedText(url) == Unquote(SubSeq(url, Len(LinkPrefix) + 1, Len(url)))

NoLinkUnderBlankNumber ==
    /\ last.route = "products"
    /\ env = BlankEnv
    /\ Len(last.resp.ids) = 4
    /\ \A k \in 1..4 : last.resp.buy[k] = <<>>

----------------------------------------------------------------------------
(* SpecRace: two threads serve the requests of one admin on product 1:     *)
(* login, two edits, the delete and the edit form, statement by statement  *)

RaceEdits == {[pid |-> 1, form |-> f] : f \in {FormA, FormB}}

NextRace ==
    \E w \in Workers, c \in TheClient, now \in AuthTimes :
        \/ Begin(w, "login_post", c, AdminLogin, now)
        \/ Begin(w, "admin_delete", c, Id1, now)
        \/ Begin(w, "admin_edit", c, 1, now)
        \/ \E e \in RaceEdits : Begin(w, "admin_edit_post", c, e, now)
        \/ SeedCount(w) \/ SeedExecute(w) \/ SeedCommit(w) \/ Busy(w)
        \/ HandleLogin(w) \/ HandleAdminEdit(w)
        \/ HandleAdminDelete(w) \/ DeleteExecute(w)
        \/ HandleAdminEditPost(w) \/ UpdateExecute(w)
        \/ Commit(w)

SpecRace == InitSet /\ [][NextRace]_vars

\* a product that a committed DELETE removed is absent
DeleteIsFinal == \A id \in goneProd : id \notin Ids(products)

\* the edit that completed last wrote the row, if the row is there
LastEditWins ==
    (/\ last.route = "admin_edit_post"
     /\ last.resp = Redirect("/admin/products")
     /\ last.in.pid \in Ids(products))
        => \A k \in MutableFields :
               products[last.in.pid][k] = Wanted(last.in.form)[k]

\* a read of a product whose DELETE has committed finds nothing
ReadsAfterDeleteFindNothing ==
    \A w \in Workers :
        (/\ inflight[w].pc = "handler" /\ inflight[w].route = "admin_edit"
         /\ inflight'[w].pc = "idle"
         /\ IsAdmin(session[inflight[w].client])
         /\ inflight[w].in \in goneProd)
            => last'.resp = Page("Urun bulunamadi")

\* C14: under every interleaving of the statements of concurrent admin
\* requests on one product, a committed delete is final (an edit that passed
\* its existence check before the delete does not bring the row back), every
\* read after the delete has committed finds the product absent, and the row
\* holds the fields of the edit that committed last.
C14_LastWriteWins ==
    /\ [](DeleteIsFinal /\ LastEditWins)
    /\ [][ReadsAfterDeleteFindNothing]_vars

\* C14 witness: an edit found product 1, the delete of product 1 committed,
\* and then the UPDATE of the edit ran and is about to commit
C14_Witness ==
    \E w \in Workers :
        /\ inflight[w].pc = "commit"
        /\ inflight[w].route = "admin_edit_post"
        /\ inflight[w].in.pid \in goneProd
        /\ inflight[w].new.name = Wanted(FormA).name

----------------------------------------------------------------------------
(* SpecSeed: two threads serve, statement by statement, the catalog, the   *)
(* login and the deletes of the first three products, from the first       *)
(* request on an empty database                                            *)

SeedDeletes == {[id |-> IntText(i)] : i \in 1..3}

NextSeed ==
    \E w \in Workers, c \in TheClient, now \in AuthTimes :
        \/ Begin(w, "login_post", c, AdminLogin, now)
        \/ Begin(w, "products", c, <<>>, now)
        \/ \E f \in SeedDeletes : Begin(w, "admin_delete", c, f, now)
        \/ SeedCount(w) \/ SeedExecute(w) \/ SeedCommit(w) \/ Busy(w)
        \/ HandleLogin(w) \/ HandleProducts(w)
        \/ HandleAdminDelete(w) \/ DeleteExecute(w)
        \/ Commit(w)

SpecSeed == InitSet /\ [][NextSeed]_vars

\* the handler of worker w reads the products table in this step
ReadsProducts(w) ==
    /\ inflight[w].pc = "handler" /\ inflight[w].route = "products"
    /\ inflight'[w].pc = "idle"

\* the seeding of a request that counted no product inserts the three seed
\* products, in their order, under ids no product has had
SeedsThree(w) ==
    (inflight[w].pc = "seed_commit" /\ inflight'[w].pc = "handler") =>
        /\ Ids(products') = Ids(products) \cup {prodSeq + 1, prodSeq + 2, prodSeq + 3}
        /\ \A k \in 1..3 : products'[prodSeq + k] = SeedRows(inflight[w].now)[k]
        /\ \A i \in Ids(products) : products'[i] = products[i]

\* _startup inserts if and only if it counted no product
SeedsOnlyWhenEmpty(w) ==
    /\ (inflight[w].pc = "count" /\ inflight'[w].pc = "handler") =>
           (Ids(products) # {} /\ UNCHANGED <<products, prodSeq>>)
    /\ (inflight[w].pc = "count" /\ inflight'[w].pc = "seed") =>
           Ids(products) = {}

\* C15 as stated: seeding runs before every request, so no handler observes
\* an empty products table; a request that arrives on an empty table has the
\* three seed products inserted under fresh ids before its handler runs, and
\* seeding changes nothing when the table is not empty.
C15_NeverEmpty ==
    [][ \A w \in Workers :
            /\ ReadsProducts(w) => Ids(products) # {}
            /\ SeedsThree(w)
            /\ SeedsOnlyWhenEmpty(w) ]_vars

\* what holds of seeding: the seeding of each request is as stated, and a
\* handler observes an empty products table only when a DELETE of another
\* request has committed since the seeding of its own request ended
SeedingPerRequest ==
    [][ \A w \in Workers :
            /\ (ReadsProducts(w) /\ Ids(products) = {}) =>
                   goneProd # inflight[w].startGone
            /\ SeedsThree(w)
            /\ SeedsOnlyWhenEmpty(w) ]_vars

\* after the first three products were deleted a request found the table
\* empty, and its handler lists the three seed products under the ids 4, 5
\* and 6
ReseededAfterDeletes ==
    /\ goneProd = {1, 2, 3}
    /\ last.route = "products"
    /\ last.resp.ids = <<6, 5, 4>>
    /\ \A k \in 1..3 : products[3 + k].name = SeedRows(1)[k].name

\* C16 as stated: of the requests that arrive at the same time on an empty
\* products table one inserts the seed products, so the table never holds
\* two copies of a seed product.
C16_SeedsOnce ==
    \A k \in 1..3 :
        Cardinality({i \in Ids(products) : products[i].name = SeedRows(1)[k].name}) <= 1

====
